---------------------------- MODULE Spec2Model ----------------------------
(***************************************************************************)
(* A model of JMCtools (bjfar/simtools): the structural recursion helper   *)
(* apply_f and the data slicer of JMCtools/common.py, and the composite    *)
(* distributions (ListModel, JointDist, MixtureModel) of                   *)
(* JMCtools/distributions.py.                                              *)
(*                                                                         *)
(* Python lists are objects with identity: the parameter lists and the     *)
(* override tables of the composites live in a heap and the composites     *)
(* hold references to them, so that aliasing is visible.                   *)
(***************************************************************************)
EXTENDS Integers, Sequences, FiniteSets, TLC

VARIABLES
    heap,   \* the composites, parameter lists and override tables alive
    last,   \* the last call made by the client and its outcome
    rt,     \* observer of an override round trip on one composite
    args,   \* pure functions: the inputs of the call
    res     \* pure functions: the outcome of the call

vars == <<heap, last, rt, args, res>>

(***************************************************************************)
(* Bounds of the model.                                                    *)
(***************************************************************************)
MaxTop == 2        \* longest top-level list of a nested structure
MaxRow == 3        \* row indices tried by get_data_slice are 0..MaxRow
MaxSub == 2        \* most submodels handed to a constructor
MaxObjs == 2       \* most composites alive

(***************************************************************************)
(* Small helpers.                                                          *)
(***************************************************************************)
Min(a, b) == IF a <= b THEN a ELSE b

Max(a, b) == IF a >= b THEN a ELSE b

RECURSIVE SumSeq(_)
SumSeq(s) == IF s = <<>> THEN 0 ELSE Head(s) + SumSeq(Tail(s))

RECURSIVE ProdSeq(_)
ProdSeq(s) == IF s = <<>> THEN 1 ELSE Head(s) * ProdSeq(Tail(s))

RECURSIVE MinLen(_)
MinLen(ss) ==
    IF Len(ss) = 1 THEN Len(ss[1])
    ELSE Min(Len(Head(ss)), MinLen(Tail(ss)))

Range(s) == {s[k] : k \in DOMAIN s}

SeqsUpTo(S, n) == UNION {[1..k -> S] : k \in 0..n}

(***************************************************************************)
(* Nested structures (common.py).  A node is a Python list or anything     *)
(* else (a leaf): isinstance(item, list) is the only test the code makes.  *)
(* An outcome is a value or a raised exception.                            *)
(***************************************************************************)
Leaf(v) == [tag |-> "leaf", v |-> v]

List(items) == [tag |-> "list", items |-> items]

Raise(e) == [tag |-> "error", err |-> e]

IsList(n) == n.tag = "list"

IsError(n) == n.tag = "error"

\* The first exception raised while a sequence of outcomes is produced in order.
FirstError(rs) ==
    LET bad == {k \in DOMAIN rs : IsError(rs[k])}
    IN  rs[CHOOSE k \in bad : \A m \in bad : k <= m]

(***************************************************************************)
(* numpy arrays: a shape and the elements in row-major order.              *)
(***************************************************************************)
Array(shape, data) == [shape |-> shape, data |-> data]

\* common.py almost_flatten: A.reshape((-1, A.shape[-1]))
almost_flatten(A) ==
    LET cols == A.shape[Len(A.shape)]
    IN  Array(<<ProdSeq(SubSeq(A.shape, 1, Len(A.shape) - 1)), cols>>, A.data)

\* A2[i,:] of a two-dimensional array: a one-dimensional array, or IndexError.
RowAt(A2, i) ==
    LET rows == A2.shape[1]
        cols == A2.shape[2]
    IN  IF i >= rows THEN Raise("IndexError")
        ELSE Leaf(Array(<<cols>>, SubSeq(A2.data, i * cols + 1, (i + 1) * cols)))

\* A2[i:j,:] of a two-dimensional array: numpy clips the range to the rows.
RowsAt(A2, i, j) ==
    LET rows == A2.shape[1]
        cols == A2.shape[2]
        lo == Min(i, rows)
        hi == Max(lo, Min(j, rows))
    IN  Leaf(Array(<<hi - lo, cols>>, SubSeq(A2.data, lo * cols + 1, hi * cols)))

(***************************************************************************)
(* The functions handed to apply_f.  "id" and "sum" are a client's         *)
(* functions over number leaves; "row" and "rows" are the two lambdas of   *)
(* get_data_slice.                                                         *)
(***************************************************************************)
CallF(f, leaves) ==
    CASE f.op = "id"   -> Leaf(leaves[1].v)
      [] f.op = "sum"  -> Leaf(SumSeq([k \in DOMAIN leaves |-> leaves[k].v]))
      [] f.op = "row"  -> RowAt(almost_flatten(leaves[1].v), f.i)
      [] f.op = "rows" -> RowsAt(almost_flatten(leaves[1].v), f.i, f.j)

\* apply_f with the mixed-node test left out, as in the binary version that
\* the general one replaced: a mixed node is handed to nobody and comes back
\* as it is.
RECURSIVE apply_f_unchecked(_, _)
apply_f_unchecked(f, iters) ==
    IF \A k \in DOMAIN iters : IsList(iters[k])
    THEN LET n == MinLen([k \in DOMAIN iters |-> iters[k].items])
             rs == [p \in 1..n |->
                      apply_f_unchecked(f, [k \in DOMAIN iters |-> iters[k].items[p]])]
         IN  IF \E p \in 1..n : IsError(rs[p]) THEN FirstError(rs) ELSE List(rs)
    ELSE IF \E k \in DOMAIN iters : IsList(iters[k])
    THEN iters[1]
    ELSE CallF(f, iters)

\* common.py apply_f: map() stops at the shortest of its arguments.
RECURSIVE apply_f(_, _)
apply_f(f, iters) ==
    IF \A k \in DOMAIN iters : IsList(iters[k])
    THEN LET n == MinLen([k \in DOMAIN iters |-> iters[k].items])
             rs == [p \in 1..n |->
                      apply_f(f, [k \in DOMAIN iters |-> iters[k].items[p]])]
         IN  IF \E p \in 1..n : IsError(rs[p]) THEN FirstError(rs) ELSE List(rs)
    ELSE IF \E k \in DOMAIN iters : IsList(iters[k])
    THEN Raise("ValueError")
    ELSE CallF(f, iters)

\* get_data_slice that reports the row count of the input for a single index.
get_data_slice_keepcount(x, i, j) ==
    LET f == IF j = <<>> THEN [op |-> "row", i |-> i]
             ELSE [op |-> "rows", i |-> i, j |-> j[1]]
        data_slice == apply_f(f, <<x.data>>)
        slice_length == IF j = <<>> THEN x.size[1] ELSE j[1] - i
    IN  IF IsError(data_slice) THEN data_slice
        ELSE [tag |-> "ok", data |-> data_slice,
              size |-> <<slice_length, x.size[Len(x.size)]>>]

\* common.py get_data_slice: x is the pair (data, size); list() of the list
\* apply_f returns is an equal list.  The optional j is <<>> for None and
\* <<j>> otherwise.
get_data_slice(x, i, j) ==
    LET f == IF j = <<>> THEN [op |-> "row", i |-> i]
             ELSE [op |-> "rows", i |-> i, j |-> j[1]]
        data_slice == apply_f(f, <<x.data>>)
        slice_length == IF j = <<>> THEN 1 ELSE j[1] - i
    IN  IF IsError(data_slice) THEN data_slice
        ELSE [tag |-> "ok", data |-> data_slice,
              size |-> <<slice_length, x.size[Len(x.size)]>>]

(***************************************************************************)
(* The inputs tried.  Lists below the top level have at most two items.    *)
(***************************************************************************)
StructsOver(leaves) ==
    LET depth1 == leaves \cup {List(s) : s \in SeqsUpTo(leaves, 2)}
    IN  depth1 \cup {List(s) : s \in SeqsUpTo(depth1, MaxTop)}

\* Nested structures of number leaves, two levels of lists deep.
Structs == StructsOver({Leaf(0), Leaf(1)})

\* The second argument of a binary call.
Structs2 == StructsOver({Leaf(1)})

\* Arrays of one, two and three dimensions; element k is (seed + k) % 3.
ArrayShapes == {<<2>>, <<2, 2>>, <<3, 1>>, <<2, 1, 2>>}

ArrayOf(shape, seed) ==
    Array(shape, [k \in 1..ProdSeq(shape) |-> (seed + k) % 3])

ArrayLeaves == {Leaf(ArrayOf(sh, seed)) : sh \in ArrayShapes, seed \in 0..1}

\* Realisation data: a list of arrays, or of arrays and lists of arrays.
DataStructs ==
    {List(s) : s \in SeqsUpTo(ArrayLeaves, MaxTop)}
    \cup {List(<<a, List(<<b>>)>>) : a \in ArrayLeaves, b \in ArrayLeaves}

ApplyArgs ==
    {[fn |-> "apply_f", f |-> [op |-> "id"], iters |-> <<s>>] : s \in Structs}
    \cup {[fn |-> "apply_f", f |-> [op |-> "sum"], iters |-> <<s, t>>] :
            s \in Structs, t \in Structs2}

SliceArgs ==
    {[fn |-> "get_data_slice", x |-> [data |-> d, size |-> <<n, c>>], i |-> i, j |-> j] :
        d \in DataStructs, n \in {5}, c \in {2, 7}, i \in 0..MaxRow,
        j \in {<<>>} \cup {<<m>> : m \in 0..(MaxRow + 1)}}

(***************************************************************************)
(* The composites (distributions.py).                                      *)
(*                                                                         *)
(* heap.objs    the composites, in order of creation; a composite's id is  *)
(*              its index                                                  *)
(* heap.plists  the parameter lists (lists of mappings, or of weights)     *)
(* heap.tables  the override tables (lists of None or a function)          *)
(* heap.born    per composite, how it came to be (history, not program     *)
(*              state): constructed, frozen from or split from another,    *)
(*              and whether it is frozen by the explicit flag alone        *)
(*                                                                         *)
(* A value that may be None, False or a list is [k, ref]: k says which and *)
(* ref is the list's place in the heap.  A mapping is "E" for {} or the    *)
(* name of a non-empty mapping.  Indices are Python's, from 0.             *)
(***************************************************************************)
PNone == [k |-> "None", ref |-> 0]

PFalse == [k |-> "False", ref |-> 0]

PRef(r) == [k |-> "list", ref |-> r]

EmptyHeap == [objs |-> <<>>, plists |-> <<>>, tables |-> <<>>, born |-> <<>>]

\* The outcome of a call: the heap it leaves, and a value or an exception.
Ok(h, ret) == [h |-> h, ok |-> TRUE, err |-> "", ret |-> ret]

Fail(h, e) == [h |-> h, ok |-> FALSE, err |-> e, ret |-> <<>>]

\* An atomic distribution: unfrozen, or frozen with a parameter mapping.
Sub(base, fz, pars) == [base |-> base, fz |-> fz, pars |-> pars]

\* ListModel.__init__ lines 17-28, the frozen status, with the explicit flag
\* ignored.
InitFrozen_noflag(parameters, frozen) ==
    ~(parameters.k = "None" \/ parameters.k = "False")

\* ListModel.__init__ lines 17-28: the frozen status.  A list equals neither
\* None nor False.
InitFrozen(parameters, frozen) ==
    IF parameters.k = "None" \/ parameters.k = "False" THEN frozen ELSE TRUE

\* ListModel.__init__ lines 37-46: an entry is a pair (model, dims) or a bare
\* model of one variate.
ListModel_init(submodels, parameters, frozen) ==
    [N_submodels |-> Len(submodels),
     parameters  |-> parameters,
     frozen      |-> InitFrozen(parameters, frozen),
     dims        |-> [k \in DOMAIN submodels |->
                        IF submodels[k].pair THEN submodels[k].d ELSE 1],
     submodels   |-> [k \in DOMAIN submodels |-> submodels[k].m]]

\* JointDist.__init__: the composite and the heap with its override table,
\* a new list of None unless one is handed in.
JointDist_init(h, submodels, parameters, repl, frozen) ==
    LET base == ListModel_init(submodels, parameters, frozen)
        tables == IF repl.k = "None"
                  THEN Append(h.tables, [k \in DOMAIN base.submodels |-> "None"])
                  ELSE h.tables
        tref == IF repl.k = "None" THEN Len(tables) ELSE repl.ref
    IN  [h   |-> [h EXCEPT !.tables = tables],
         obj |-> base @@ [cls |-> "JointDist", repl |-> tref]]

\* MixtureModel.__init__: the weights are the composite's own parameters; the
\* frozen flag is not passed on.
MixtureModel_init(h, submodels, weights) ==
    [h   |-> h,
     obj |-> ListModel_init(submodels, weights, FALSE)
                @@ [cls |-> "MixtureModel", repl |-> 0]]

\* The heap with a composite added; born says how it came to be.
Alloc(made, born) ==
    [made.h EXCEPT !.objs = Append(@, made.obj), !.born = Append(@, born)]

\* The parameter list a value stands for (None and False stand for no list).
ListOf(h, p) == IF p.k = "list" THEN h.plists[p.ref] ELSE <<>>

\* _check_parameters that lets a frozen composite be overridden.
check_parameters_lenient(self, parameters) ==
    IF ~self.frozen /\ parameters.k = "None" THEN Fail(<<>>, "ValueError")
    ELSE IF self.frozen /\ parameters.k = "None" THEN Ok(<<>>, self.parameters)
    ELSE Ok(<<>>, parameters)

\* ListModel._check_parameters: it reads the composite and writes nothing.
check_parameters(self, parameters) ==
    IF self.frozen /\ parameters.k # "None" THEN Fail(<<>>, "ValueError")
    ELSE IF ~self.frozen /\ parameters.k = "None" THEN Fail(<<>>, "ValueError")
    ELSE IF self.frozen /\ parameters.k = "None" THEN Ok(<<>>, self.parameters)
    ELSE Ok(<<>>, parameters)

\* ListModel._freeze_submodels: zip stops at the shorter of the submodels and
\* the parameters; an atomic distribution that is already frozen cannot be
\* called.
freeze_submodels(h, self, parameters) ==
    IF self.frozen THEN Fail(h, "ValueError")
    ELSE IF parameters.k # "list" THEN Fail(h, "TypeError")
    ELSE LET pl == ListOf(h, parameters)
             n == Min(Len(self.submodels), Len(pl))
         IN  IF \E k \in 1..n : self.submodels[k].fz THEN Fail(h, "TypeError")
             ELSE Ok(h, [k \in 1..n |-> Sub(self.submodels[k].base, TRUE, pl[k])])

\* Submodels handed on bare, as __call__ does.
Bare(subs) == [k \in DOMAIN subs |-> [pair |-> FALSE, m |-> subs[k], d |-> 1]]

\* JointDist.__call__ that freezes the composite in place.
JointDist_call_inplace(h, c, parameters) ==
    LET self == h.objs[c]
        chk == check_parameters(self, parameters)
    IN  IF ~chk.ok THEN Fail(h, chk.err)
        ELSE Ok([h EXCEPT !.objs[c].frozen = TRUE,
                          !.objs[c].parameters = chk.ret], c)

\* JointDist.__call__: a new composite over the frozen submodels, with the
\* parameter list it was handed and the override table of this one.
JointDist_call(h, c, parameters) ==
    LET self == h.objs[c]
        chk == check_parameters(self, parameters)
        fs == freeze_submodels(h, self, chk.ret)
    IN  IF self.frozen THEN Fail(h, "ValueError")
        ELSE IF ~chk.ok THEN Fail(h, chk.err)
        ELSE IF ~fs.ok THEN Fail(h, fs.err)
        ELSE LET made == JointDist_init(h, Bare(fs.ret), chk.ret,
                                        PRef(self.repl), FALSE)
                 h2 == Alloc(made, [how |-> "call", from |-> c, flag |-> FALSE])
             IN  Ok(h2, Len(h2.objs))

\* MixtureModel.__call__
MixtureModel_call(h, c, weights, parameters) ==
    LET self == h.objs[c]
        chk1 == check_parameters(self, parameters)
        chk2 == check_parameters(self, weights)
        fs == freeze_submodels(h, self, parameters)
    IN  IF self.frozen THEN Fail(h, "ValueError")
        ELSE IF ~chk1.ok THEN Fail(h, chk1.err)
        ELSE IF ~chk2.ok THEN Fail(h, chk2.err)
        ELSE IF ~fs.ok THEN Fail(h, fs.err)
        ELSE LET made == MixtureModel_init(h, Bare(fs.ret), chk2.ret)
                 h2 == Alloc(made, [how |-> "call", from |-> c, flag |-> FALSE])
             IN  Ok(h2, Len(h2.objs))

\* ListModel.split_data hands the data and self.dims to c.split_data: the
\* last axis is cut into one chunk per entry of dims, in order; a chunk is
\* <<first column, number of columns>>.
split_data(dims) ==
    [k \in DOMAIN dims |-> <<SumSeq(SubSeq(dims, 1, k - 1)), dims[k]>>]

NoSub == Sub("-", FALSE, "E")

\* A log-density evaluated: by which override ("None": the submodel's own
\* logpdf or logpmf), of which submodel, with which mapping, on which chunk.
Density(f, model, pars, x) == [f |-> f, model |-> model, pars |-> pars, x |-> x]

\* JointDist.submodel_logpdf
submodel_logpdf(self, i, x, parameters) ==
    IF self.frozen /\ parameters # "E" THEN Fail(<<>>, "ValueError")
    ELSE IF ~self.frozen /\ parameters = "E" THEN Fail(<<>>, "ValueError")
    ELSE IF i >= Len(self.submodels) THEN Fail(<<>>, "IndexError")
    ELSE Ok(<<>>, Density("None", self.submodels[i + 1], parameters, x))

\* One position of pdf and logpdf_list: the override if the slot holds one,
\* else the submodel's own density.
EvalAt(self, i, alt_logpdf, xi, pars) ==
    IF alt_logpdf # "None" THEN Ok(<<>>, Density(alt_logpdf, NoSub, pars, xi))
    ELSE submodel_logpdf(self, i, xi, pars)

\* The densities of pdf (lines 310-320) and of logpdf_list (lines 359-373):
\* position 0 by index, the others by zip over the tails of the chunks, the
\* submodels, the table and the parameters.  islist: the parameters are a
\* list (None and False cannot be indexed).
Terms(h, self, table, x_split, islist, pl) ==
    IF Len(table) = 0 \/ Len(x_split) = 0 THEN Fail(h, "IndexError")
    ELSE IF ~islist THEN Fail(h, "TypeError")
    ELSE IF Len(pl) = 0 THEN Fail(h, "IndexError")
    ELSE LET n == Min(Min(Len(x_split), Len(self.submodels)),
                      Min(Len(table), Len(pl)))
             ts == [k \in 1..n |-> EvalAt(self, k - 1, table[k], x_split[k], pl[k])]
             bad == {k \in 1..n : ~ts[k].ok}
         IN  IF bad # {}
             THEN Fail(h, ts[CHOOSE k \in bad : \A m \in bad : k <= m].err)
             ELSE Ok(h, [k \in 1..n |-> ts[k].ret])

\* JointDist.pdf: the product over the submodels of the exponentials of the
\* densities listed.
JointDist_pdf(h, c, parameters) ==
    LET self == h.objs[c]
        chk == check_parameters(self, parameters)
    IN  IF ~chk.ok THEN Fail(h, chk.err)
        ELSE Terms(h, self, h.tables[self.repl], split_data(self.dims),
                   chk.ret.k = "list", ListOf(h, chk.ret))

\* JointDist.logpdf_list.  A frozen composite's parameters are the stored
\* list itself, and lines 351-354 assign {} into it for every slot without
\* an override, up to the first index the table or the list does not have.
JointDist_logpdf_list(h, c, parameters) ==
    LET self == h.objs[c]
        chk == check_parameters(self, parameters)
        table == h.tables[self.repl]
        N == Len(self.submodels)
        local == chk.ret.k = "None"
        islist == local \/ chk.ret.k = "list"
        pl0 == IF local THEN [k \in 1..N |-> "E"] ELSE ListOf(h, chk.ret)
        bad == {i \in 0..(N - 1) :
                  \/ i >= Len(table)
                  \/ table[i + 1] = "None" /\ (~islist \/ i >= Len(pl0))}
        stop == IF bad = {} \/ ~self.frozen THEN N
                ELSE CHOOSE i \in bad : \A m \in bad : i <= m
        pl1 == [k \in DOMAIN pl0 |->
                  IF self.frozen /\ k <= stop /\ table[k] = "None"
                  THEN "E" ELSE pl0[k]]
        h1 == IF chk.ret.k = "list" THEN [h EXCEPT !.plists[chk.ret.ref] = pl1]
              ELSE h
    IN  IF ~chk.ok THEN Fail(h, chk.err)
        ELSE IF stop < N
        THEN Fail(h1, IF stop < Len(table) /\ ~islist THEN "TypeError"
                      ELSE "IndexError")
        ELSE Terms(h1, self, table, split_data(self.dims), islist, pl1)

\* JointDist.logpdf: the sum of the entries of logpdf_list.
JointDist_logpdf(h, c, parameters) == JointDist_logpdf_list(h, c, parameters)

\* JointDist.rvs: one sample per pair of zip(submodels, parameters); numpy
\* cannot concatenate an empty list.
JointDist_rvs(h, c, parameters) ==
    LET self == h.objs[c]
        chk == check_parameters(self, parameters)
        pl == IF self.frozen THEN [k \in DOMAIN self.submodels |-> "E"]
              ELSE ListOf(h, chk.ret)
        n == Min(Len(self.submodels), Len(pl))
    IN  IF ~self.frozen /\ ~chk.ok THEN Fail(h, chk.err)
        ELSE IF ~self.frozen /\ chk.ret.k # "list" THEN Fail(h, "TypeError")
        ELSE IF n = 0 THEN Fail(h, "ValueError")
        ELSE Ok(h, [k \in 1..n |-> [model |-> self.submodels[k], pars |-> pl[k]]])

\* The ValueError of MixtureModel.pdf and rvs for weights that are None, told
\* from the ValueError of _check_parameters by its message.
NoWeights == "ValueError: No mixing weights supplied!"

\* MixtureModel.pdf: both arguments are validated, the weights are the
\* validated ones (the stored ones if frozen) and the parameters, if None,
\* become one {} per submodel; the first term is taken by index, the others
\* by zip over the tails of the weights, the submodels and the parameters.
MixtureModel_pdf(h, c, weights, parameters) ==
    LET self == h.objs[c]
        chk1 == check_parameters(self, parameters)
        chk2 == check_parameters(self, weights)
        w == chk2.ret
        wl == ListOf(h, w)
        pl == IF parameters.k = "None" THEN [k \in DOMAIN self.submodels |-> "E"]
              ELSE ListOf(h, parameters)
        n == Min(Len(wl), Min(Len(self.submodels), Len(pl)))
    IN  IF ~chk1.ok THEN Fail(h, chk1.err)
        ELSE IF ~chk2.ok THEN Fail(h, chk2.err)
        ELSE IF w.k = "None" THEN Fail(h, NoWeights)
        ELSE IF w.k # "list" THEN Fail(h, "TypeError")
        ELSE IF Len(wl) = 0 \/ Len(self.submodels) = 0 THEN Fail(h, "IndexError")
        ELSE IF parameters.k = "False" THEN Fail(h, "TypeError")
        ELSE IF Len(pl) = 0 THEN Fail(h, "IndexError")
        ELSE Ok(h, [k \in 1..n |->
                      [w |-> wl[k], model |-> self.submodels[k], pars |-> pl[k]]])

\* MixtureModel.rvs: a label per position drawn with the weights, one sample
\* from every pair of zip(submodels, parameters), and the labelled samples
\* picked.  numpy refuses weights that are not one per submodel; a label
\* beyond the samples drawn is refused too, and whether one is drawn is
\* chance (inrange).
MixtureModel_rvs(h, c, weights, parameters, inrange) ==
    LET self == h.objs[c]
        chk1 == check_parameters(self, parameters)
        chk2 == check_parameters(self, weights)
        w == chk2.ret
        wl == ListOf(h, w)
        N == Len(self.submodels)
        pl == IF parameters.k = "None" THEN [k \in DOMAIN self.submodels |-> "E"]
              ELSE ListOf(h, parameters)
        n == Min(N, Len(pl))
    IN  IF ~chk1.ok THEN Fail(h, chk1.err)
        ELSE IF ~chk2.ok THEN Fail(h, chk2.err)
        ELSE IF w.k = "None" THEN Fail(h, NoWeights)
        ELSE IF w.k # "list" \/ N = 0 \/ Len(wl) # N THEN Fail(h, "ValueError")
        ELSE IF parameters.k = "False" THEN Fail(h, "TypeError")
        ELSE IF n < N /\ ~inrange THEN Fail(h, "ValueError")
        ELSE Ok(h, [k \in 1..n |-> [model |-> self.submodels[k], pars |-> pl[k]]])

\* JointDist.split: the three list comprehensions are evaluated in order,
\* and the new composite gets new lists.
JointDist_split(h, c, selection) ==
    LET self == h.objs[c]
        table == h.tables[self.repl]
        pl == ListOf(h, self.parameters)
        n == Len(selection)
        entries == [k \in 1..n |-> [pair |-> TRUE,
                                    m |-> self.submodels[selection[k] + 1],
                                    d |-> self.dims[selection[k] + 1]]]
        newpl == [k \in 1..n |-> pl[selection[k] + 1]]
        newtable == [k \in 1..n |-> table[selection[k] + 1]]
        h1 == [h EXCEPT !.tables = Append(@, newtable)]
        h2 == [h1 EXCEPT !.plists = Append(@, newpl)]
        born == [how |-> "split", from |-> c, flag |-> FALSE]
    IN  IF \E k \in 1..n : selection[k] >= Len(self.submodels)
        THEN Fail(h, "IndexError")
        ELSE IF self.frozen /\ n > 0 /\ self.parameters.k # "list"
        THEN Fail(h, "TypeError")
        ELSE IF self.frozen /\ \E k \in 1..n : selection[k] >= Len(pl)
        THEN Fail(h, "IndexError")
        ELSE IF \E k \in 1..n : selection[k] >= Len(table)
        THEN Fail(h, "IndexError")
        ELSE IF self.frozen
        THEN LET made == JointDist_init(h2, entries, PRef(Len(h2.plists)),
                                        PRef(Len(h2.tables)), TRUE)
                 h3 == Alloc(made, born)
             IN  Ok(h3, Len(h3.objs))
        ELSE LET made == JointDist_init(h1, entries, PNone,
                                        PRef(Len(h1.tables)), FALSE)
                 h3 == Alloc(made, born)
             IN  Ok(h3, Len(h3.objs))

\* set_submodel_logpdf that keeps the slot when handed None.
set_submodel_logpdf_keep(h, c, i, f) ==
    LET self == h.objs[c]
    IN  IF i >= Len(h.tables[self.repl]) THEN Fail(h, "IndexError")
        ELSE IF f = "None" THEN Ok(h, <<>>)
        ELSE Ok([h EXCEPT !.tables[self.repl][i + 1] = f], <<>>)

\* JointDist.set_submodel_logpdf: an assignment into the table the composite
\* refers to.
set_submodel_logpdf(h, c, i, f) ==
    LET self == h.objs[c]
    IN  IF i >= Len(h.tables[self.repl]) THEN Fail(h, "IndexError")
        ELSE Ok([h EXCEPT !.tables[self.repl][i + 1] = f], <<>>)

\* JointDist.set_logpdf: the composite refers to the list handed in.
set_logpdf(h, c, listf) == Ok([h EXCEPT !.objs[c].repl = listf.ref], <<>>)

(***************************************************************************)
(* The client.  It constructs one composite, and then calls the composites *)
(* it has.  A list argument is a list literal, which is a new list, or a   *)
(* list some composite already refers to.  A list nothing refers to any    *)
(* more is gone, and the lists left are numbered in their old order.       *)
(***************************************************************************)
Overrides == {"h1"}

\* The k-th entry of a submodel list: a bare model of one variate at the odd
\* places, a pair (model, 2) at the even ones.
EntryAt(k) ==
    IF k % 2 = 1 THEN [pair |-> FALSE, m |-> Sub("m1", FALSE, "E"), d |-> 1]
    ELSE [pair |-> TRUE, m |-> Sub("m2", FALSE, "E"), d |-> 2]

\* The submodel list the client constructs the first composite from.
EntryLists == {[k \in 1..MaxSub |-> EntryAt(k)]}

\* The parameter lists written out by the client: the k-th mapping is "A" at
\* the odd places and "B" at the even ones.
ParamLits ==
    {[k \in 1..n |-> IF k % 2 = 1 THEN "A" ELSE "B"] : n \in 0..MaxSub}

TableLits == {[k \in 1..n |-> IF k = 1 THEN "h1" ELSE "None"] : n \in 0..MaxSub}

Selections == {<<>>, <<0>>} \cup {<<k>> : k \in 1..(MaxSub - 1)}
              \cup {<<k, 0>> : k \in 1..(MaxSub - 1)}

Lit(v) == [k |-> "lit", val |-> v]

ParamChoices(h) ==
    {PNone, PFalse} \cup {PRef(r) : r \in 1..Len(h.plists)}
    \cup {Lit(v) : v \in ParamLits}

TableChoices(h) ==
    {PRef(t) : t \in 1..Len(h.tables)} \cup {Lit(v) : v \in TableLits}

\* The heap once the argument is evaluated, and the argument as the callee
\* gets it.
WithParam(h, ch) ==
    IF ch.k = "lit" THEN [h EXCEPT !.plists = Append(@, ch.val)] ELSE h

ParamOf(h, ch) == IF ch.k = "lit" THEN PRef(Len(h.plists) + 1) ELSE ch

WithTable(h, ch) ==
    IF ch.k = "lit" THEN [h EXCEPT !.tables = Append(@, ch.val)] ELSE h

TableOf(h, ch) == IF ch.k = "lit" THEN PRef(Len(h.tables) + 1) ELSE ch

\* The heap without the lists no composite refers to.
Normalize(h) ==
    LET pused == {h.objs[c].parameters.ref : c \in DOMAIN h.objs} \ {0}
        tused == {h.objs[c].repl : c \in DOMAIN h.objs} \ {0}
        prank(r) == Cardinality({x \in pused : x <= r})
        trank(r) == Cardinality({x \in tused : x <= r})
    IN  [objs   |-> [c \in DOMAIN h.objs |->
                       [h.objs[c] EXCEPT
                          !.parameters = IF @.k = "list" THEN PRef(prank(@.ref)) ELSE @,
                          !.repl = IF @ = 0 THEN 0 ELSE trank(@)]],
         plists |-> [i \in 1..Cardinality(pused) |->
                       h.plists[CHOOSE r \in pused : prank(r) = i]],
         tables |-> [i \in 1..Cardinality(tused) |->
                       h.tables[CHOOSE r \in tused : trank(r) = i]],
         born   |-> h.born]

\* An argument by value, to compare two calls.
ByValue(h, p) == [k |-> p.k, val |-> ListOf(h, p)]

Joints(h) == {c \in DOMAIN h.objs : h.objs[c].cls = "JointDist"}

Mixtures(h) == {c \in DOMAIN h.objs : h.objs[c].cls = "MixtureModel"}

\* The client's position: between calls, or holding the outcome of a call.
Idle == [op |-> "none", self |-> 0, ok |-> TRUE]

Called(op, self, out) == [op |-> op, self |-> self, ok |-> out.ok]

\* The observer of an override round trip on composite self: phase 1 after
\* logpdf_list returned r1 with slot 0 empty, 2 after set_submodel_logpdf(0, f),
\* 3 after set_submodel_logpdf(0, None), 4 after logpdf_list on the same
\* inputs returned r2, 5 if that call raised.  Any other call ends it.
Rt(phase, self, p, r1, r2) ==
    [phase |-> phase, self |-> self, p |-> p, r1 |-> r1, r2 |-> r2]

RtIdle == Rt(0, 0, <<>>, <<>>, <<>>)

\* JointDist(submodels, parameters, frozen=...)
NewJointDist(submodels, ch, frozen) ==
    LET h0 == WithParam(EmptyHeap, ch)
        made == JointDist_init(h0, submodels, ParamOf(EmptyHeap, ch), PNone, frozen)
    IN  Alloc(made, [how |-> "new", from |-> 0,
                     flag |-> frozen /\ ch.k \in {"None", "False"}])

\* MixtureModel(submodels, weights)
NewMixtureModel(submodels, ch) ==
    LET h0 == WithParam(EmptyHeap, ch)
        made == MixtureModel_init(h0, submodels, ParamOf(EmptyHeap, ch))
    IN  Alloc(made, [how |-> "new", from |-> 0, flag |-> FALSE])

\* The state after construction of the first composite.
Init ==
    /\ \E submodels \in EntryLists,
          ch \in {PNone, PFalse} \cup {Lit(v) : v \in ParamLits},
          frozen \in BOOLEAN, cls \in {"JointDist", "MixtureModel"} :
          /\ cls = "MixtureModel" => ~frozen
          /\ heap = IF cls = "JointDist" THEN NewJointDist(submodels, ch, frozen)
                    ELSE NewMixtureModel(submodels, ch)
          /\ last = [op |-> cls, self |-> 0, ok |-> TRUE]
    /\ rt = RtIdle
    /\ args = <<>>
    /\ res = <<>>

\* c(parameters) on a JointDist
CallJointDist ==
    /\ last = Idle
    /\ Len(heap.objs) < MaxObjs
    /\ \E c \in Joints(heap), ch \in ParamChoices(heap) :
          LET out == JointDist_call(WithParam(heap, ch), c, ParamOf(heap, ch))
          IN  /\ heap' = Normalize(out.h)
              /\ last' = Called("call", c, out)
    /\ rt' = RtIdle
    /\ UNCHANGED <<args, res>>

\* c(weights, parameters) on a MixtureModel
CallMixtureModel ==
    /\ last = Idle
    /\ Len(heap.objs) < MaxObjs
    /\ \E c \in Mixtures(heap), chw \in ParamChoices(heap) :
          LET h0 == WithParam(heap, chw)
              weights == ParamOf(heap, chw)
          IN  \E chp \in ParamChoices(heap) :
                LET out == MixtureModel_call(WithParam(h0, chp), c, weights,
                                             ParamOf(h0, chp))
                IN  /\ heap' = Normalize(out.h)
                    /\ last' = Called("call", c, out)
    /\ rt' = RtIdle
    /\ UNCHANGED <<args, res>>

\* c._check_parameters(parameters)
CheckParameters ==
    /\ last = Idle
    /\ \E c \in DOMAIN heap.objs, ch \in ParamChoices(heap) :
          LET h0 == WithParam(heap, ch)
              out == check_parameters(h0.objs[c], ParamOf(heap, ch))
          IN  /\ heap' = heap
              /\ last' = Called("_check_parameters", c, out)
    /\ rt' = RtIdle
    /\ UNCHANGED <<args, res>>

\* c.pdf(x, parameters)
Pdf ==
    /\ last = Idle
    /\ \E c \in Joints(heap), ch \in ParamChoices(heap) :
          LET out == JointDist_pdf(WithParam(heap, ch), c, ParamOf(heap, ch))
          IN  /\ heap' = Normalize(out.h)
              /\ last' = Called("pdf", c, out)
    /\ rt' = RtIdle
    /\ UNCHANGED <<args, res>>

\* c.logpdf_list(x, parameters)
LogpdfList ==
    /\ last = Idle
    /\ \E c \in Joints(heap), ch \in ParamChoices(heap) :
          LET h0 == WithParam(heap, ch)
              pv == ByValue(h0, ParamOf(heap, ch))
              out == JointDist_logpdf_list(h0, c, ParamOf(heap, ch))
              table == heap.tables[heap.objs[c].repl]
          IN  /\ heap' = Normalize(out.h)
              /\ last' = Called("logpdf_list", c, out)
              /\ rt' = IF rt.phase = 3 /\ rt.self = c /\ rt.p = pv
                       THEN Rt(IF out.ok THEN 4 ELSE 5, c, pv, rt.r1, out.ret)
                       ELSE IF out.ok /\ table[1] = "None"
                       THEN Rt(1, c, pv, out.ret, <<>>)
                       ELSE RtIdle
    /\ UNCHANGED <<args, res>>

\* c.logpdf(x, parameters)
Logpdf ==
    /\ last = Idle
    /\ \E c \in Joints(heap), ch \in ParamChoices(heap) :
          LET out == JointDist_logpdf(WithParam(heap, ch), c, ParamOf(heap, ch))
          IN  /\ heap' = Normalize(out.h)
              /\ last' = Called("logpdf", c, out)
    /\ rt' = RtIdle
    /\ UNCHANGED <<args, res>>

\* c.rvs(size, parameters)
Rvs ==
    /\ last = Idle
    /\ \E c \in Joints(heap), ch \in ParamChoices(heap) :
          LET out == JointDist_rvs(WithParam(heap, ch), c, ParamOf(heap, ch))
          IN  /\ heap' = Normalize(out.h)
              /\ last' = Called("rvs", c, out)
    /\ rt' = RtIdle
    /\ UNCHANGED <<args, res>>

\* c.pdf(x, weights, parameters) on a MixtureModel
MixturePdf ==
    /\ last = Idle
    /\ \E c \in Mixtures(heap), chw \in ParamChoices(heap) :
          LET h0 == WithParam(heap, chw)
              weights == ParamOf(heap, chw)
          IN  \E chp \in ParamChoices(heap) :
                LET out == MixtureModel_pdf(WithParam(h0, chp), c, weights,
                                            ParamOf(h0, chp))
                IN  /\ heap' = Normalize(out.h)
                    /\ last' = Called("mixture_pdf", c, out)
    /\ rt' = RtIdle
    /\ UNCHANGED <<args, res>>

\* c.rvs(size, weights, parameters) on a MixtureModel
MixtureRvs ==
    /\ last = Idle
    /\ \E c \in Mixtures(heap), chw \in ParamChoices(heap), inrange \in BOOLEAN :
          LET h0 == WithParam(heap, chw)
              weights == ParamOf(heap, chw)
          IN  \E chp \in ParamChoices(heap) :
                LET out == MixtureModel_rvs(WithParam(h0, chp), c, weights,
                                            ParamOf(h0, chp), inrange)
                IN  /\ heap' = Normalize(out.h)
                    /\ last' = Called("mixture_rvs", c, out)
    /\ rt' = RtIdle
    /\ UNCHANGED <<args, res>>

\* c.split(selection)
Split ==
    /\ last = Idle
    /\ Len(heap.objs) < MaxObjs
    /\ \E c \in Joints(heap), selection \in Selections :
          LET out == JointDist_split(heap, c, selection)
          IN  /\ heap' = Normalize(out.h)
              /\ last' = Called("split", c, out)
    /\ rt' = RtIdle
    /\ UNCHANGED <<args, res>>

\* c.set_submodel_logpdf(i, f)
SetSubmodelLogpdf ==
    /\ last = Idle
    /\ \E c \in Joints(heap), i \in 0..(MaxSub - 1), f \in Overrides \cup {"None"} :
          LET out == set_submodel_logpdf(heap, c, i, f)
          IN  /\ heap' = Normalize(out.h)
              /\ last' = Called("set_submodel_logpdf", c, out)
              /\ rt' = IF rt.self = c /\ i = 0 /\ out.ok /\ rt.phase = 1 /\ f # "None"
                       THEN [rt EXCEPT !.phase = 2]
                       ELSE IF rt.self = c /\ i = 0 /\ out.ok /\ rt.phase = 2 /\ f = "None"
                       THEN [rt EXCEPT !.phase = 3]
                       ELSE RtIdle
    /\ UNCHANGED <<args, res>>

\* c.set_logpdf(listf)
SetLogpdf ==
    /\ last = Idle
    /\ \E c \in Joints(heap), ch \in TableChoices(heap) :
          LET out == set_logpdf(WithTable(heap, ch), c, TableOf(heap, ch))
          IN  /\ heap' = Normalize(out.h)
              /\ last' = Called("set_logpdf", c, out)
    /\ rt' = RtIdle
    /\ UNCHANGED <<args, res>>

\* The client is done with the outcome of the last call.
Return ==
    /\ last # Idle
    /\ last' = Idle
    /\ UNCHANGED <<heap, rt, args, res>>

Next ==
    \/ Return
    \/ CallJointDist
    \/ CallMixtureModel
    \/ CheckParameters
    \/ Pdf
    \/ LogpdfList
    \/ Logpdf
    \/ Rvs
    \/ MixturePdf
    \/ MixtureRvs
    \/ Split
    \/ SetSubmodelLogpdf
    \/ SetLogpdf

Spec == Init /\ [][Next]_vars

(***************************************************************************)
(* What the claims about the composites speak of.                          *)
(***************************************************************************)
\* The stored parameter list and the override table of composite c, by value.
StoredList(h, c) == ListOf(h, h.objs[c].parameters)

TableVal(h, c) == h.tables[h.objs[c].repl]

IsNull(p) == p.k = "None" \/ p.k = "False"

\* C1, the calls: _check_parameters(p) raises exactly when the composite is
\* frozen and p is not None, or unfrozen and p is None; otherwise it returns
\* the stored parameters if frozen and p itself if unfrozen; and JointDist.pdf
\* raises in the two failing cases.
C1_Calls ==
    \A c \in DOMAIN heap.objs, ch \in ParamChoices(heap) :
        LET h0 == WithParam(heap, ch)
            p == ParamOf(heap, ch)
            self == h0.objs[c]
            out == check_parameters(self, p)
            refused == \/ self.frozen /\ p # PNone
                       \/ ~self.frozen /\ p = PNone
        IN  /\ ~out.ok <=> refused
            /\ out.ok => out.ret = IF self.frozen THEN self.parameters ELSE p
            /\ (refused /\ c \in Joints(heap)) => ~JointDist_pdf(h0, c, p).ok

\* C1, the step: a call of _check_parameters leaves every composite and list
\* as it was, and it raised only on a composite that is frozen or was handed
\* nothing.
C1_Step ==
    last'.op = "_check_parameters" =>
        /\ heap' = heap
        /\ ~last'.ok => \/ heap.objs[last'.self].frozen
                        \/ ~check_parameters(heap.objs[last'.self], PNone).ok

\* C1: for every composite and every argument p, _check_parameters(p) fails
\* exactly when (frozen and p non-null) or (unfrozen and p null), otherwise
\* returns the stored parameters if frozen and p if unfrozen, and never
\* changes the composite; JointDist.pdf fails in the same two cases.
C1_CheckParameters == [][C1_Step]_vars /\ []C1_Calls

\* _check_parameters, or pdf, has raised on a frozen JointDist that holds a
\* parameter list.
C1_Witness ==
    /\ last.op \in {"_check_parameters", "pdf"}
    /\ ~last.ok
    /\ heap.objs[last.self].cls = "JointDist"
    /\ heap.objs[last.self].frozen
    /\ heap.objs[last.self].parameters.k = "list"

\* C2, the calls: __call__ on a frozen composite raises and changes nothing;
\* on an unfrozen one, when it returns, the result is a new composite, frozen
\* if it was handed a list, and the original is as it was, unfrozen.
C2_Calls ==
    \A c \in DOMAIN heap.objs, chw \in ParamChoices(heap), chp \in ParamChoices(heap) :
        LET h0 == WithParam(heap, chw)
            weights == ParamOf(heap, chw)
            h1 == IF c \in Joints(heap) THEN h0 ELSE WithParam(h0, chp)
            out == IF c \in Joints(heap) THEN JointDist_call(h1, c, weights)
                   ELSE MixtureModel_call(h1, c, weights, ParamOf(h0, chp))
        IN  /\ heap.objs[c].frozen => ~out.ok /\ out.h = h1
            /\ (~heap.objs[c].frozen /\ out.ok) =>
                  /\ Len(out.h.objs) = Len(heap.objs) + 1
                  /\ out.ret = Len(out.h.objs)
                  /\ weights.k = "list" => out.h.objs[out.ret].frozen
                  /\ out.h.objs[c] = heap.objs[c]
                  /\ ~out.h.objs[c].frozen

\* C2, the step: no call changes the frozen flag of a composite that exists.
C2_Step ==
    \A c \in DOMAIN heap.objs : heap'.objs[c].frozen = heap.objs[c].frozen

\* C2: freezing a frozen composite fails for every argument and leaves it
\* unchanged; freezing an unfrozen one with a parameter list returns a new,
\* frozen composite and the original stays unfrozen; no sequence of calls
\* changes the frozen flag of an existing composite.
C2_Freeze == [][C2_Step]_vars /\ []C2_Calls

\* A composite has been frozen from an unfrozen one, which is still unfrozen.
C2_Witness ==
    /\ last.op = "call" /\ last.ok
    /\ Len(heap.objs) = 2
    /\ heap.born[2].how = "call" /\ heap.born[2].from = 1
    /\ heap.objs[2].frozen /\ ~heap.objs[1].frozen

\* C3 as claimed: in every composite, frozen implies stored parameters that
\* are not null, and unfrozen implies stored parameters that are null (None,
\* or the False that the constructor treats alike).
C3_Original ==
    \A c \in DOMAIN heap.objs :
        /\ heap.objs[c].frozen => ~IsNull(heap.objs[c].parameters)
        /\ ~heap.objs[c].frozen => IsNull(heap.objs[c].parameters)

\* C3 as amended: unfrozen implies null stored parameters; frozen implies
\* non-null stored parameters except for a JointDist constructed with the
\* explicit flag frozen=True and null parameters, which is frozen and keeps
\* null stored parameters.
C3_Amended ==
    \A c \in DOMAIN heap.objs :
        LET o == heap.objs[c]
            byflag == /\ o.cls = "JointDist"
                      /\ heap.born[c].how = "new"
                      /\ heap.born[c].flag
        IN  /\ ~o.frozen => IsNull(o.parameters)
            /\ (o.frozen /\ ~byflag) => ~IsNull(o.parameters)
            /\ heap.born[c].flag => o.frozen /\ IsNull(o.parameters)

\* A JointDist frozen by the flag alone has been split.
C3_Witness ==
    /\ Len(heap.objs) = 2
    /\ heap.born[1].flag /\ heap.objs[1].frozen
    /\ heap.born[2].how = "split" /\ heap.objs[2].frozen
    /\ last.op = "split" /\ last.ok

\* C4 as claimed: a call of pdf, logpdf, logpdf_list, rvs, split,
\* set_submodel_logpdf or set_logpdf on a frozen JointDist leaves its stored
\* per-submodel parameter mappings as they were.
C4_Original ==
    [][ \A c \in Joints(heap) :
          (/\ heap.objs[c].frozen
           /\ heap.objs[c].parameters.k = "list"
           /\ last'.self = c
           /\ last'.op \in {"pdf", "logpdf", "logpdf_list", "rvs", "split",
                            "set_submodel_logpdf", "set_logpdf"})
          => StoredList(heap', c) = StoredList(heap, c) ]_vars

\* Composite d was frozen from c, or c from d.
FrozenFrom(h, c, d) ==
    \/ h.born[d].how = "call" /\ h.born[d].from = c
    \/ h.born[c].how = "call" /\ h.born[c].from = d

\* C5 as claimed: set_submodel_logpdf on a composite leaves the override
\* table of the composite it was frozen from, and of the composites frozen
\* from it, as it was.
C5_Original ==
    [][ last'.op = "set_submodel_logpdf" =>
          \A d \in DOMAIN heap.objs :
              (d # last'.self /\ FrozenFrom(heap, last'.self, d))
              => TableVal(heap', d) = TableVal(heap, d) ]_vars

\* C6 as claimed: for every JointDist and every list of valid indices, split
\* returns a new JointDist whose k-th submodel, dimensionality, override
\* slot and (if frozen) parameter mapping are those at index sel[k], whose
\* frozen flag is that of the original, and the original is unchanged.
C6_Original ==
    \A c \in Joints(heap), sel \in Selections :
        (\A k \in DOMAIN sel : sel[k] < Len(heap.objs[c].submodels)) =>
            LET out == JointDist_split(heap, c, sel)
                J == heap.objs[c]
                S == out.h.objs[out.ret]
            IN  /\ out.ok
                /\ out.ret = Len(heap.objs) + 1
                /\ Len(S.submodels) = Len(sel)
                /\ S.frozen = J.frozen
                /\ \A k \in DOMAIN sel :
                      /\ S.submodels[k] = J.submodels[sel[k] + 1]
                      /\ S.dims[k] = J.dims[sel[k] + 1]
                      /\ TableVal(out.h, out.ret)[k] = TableVal(heap, c)[sel[k] + 1]
                      /\ J.frozen =>
                            StoredList(out.h, out.ret)[k] = StoredList(heap, c)[sel[k] + 1]
                /\ out.h.objs[c] = J
                /\ TableVal(out.h, c) = TableVal(heap, c)
                /\ StoredList(out.h, c) = StoredList(heap, c)

\* C7 as claimed: pdf succeeds exactly when logpdf succeeds, and evaluates
\* for each submodel the density that logpdf_list evaluates, with the same
\* parameter mapping.
C7_Original ==
    \A c \in Joints(heap), ch \in ParamChoices(heap) :
        LET h0 == WithParam(heap, ch)
            p == ParamOf(heap, ch)
            viapdf == JointDist_pdf(h0, c, p)
            vialog == JointDist_logpdf(h0, c, p)
            vialist == JointDist_logpdf_list(h0, c, p)
        IN  /\ viapdf.ok <=> vialog.ok
            /\ (viapdf.ok /\ vialist.ok) => viapdf.ret = vialist.ret

\* C8: logpdf_list, then set_submodel_logpdf(0, f), then
\* set_submodel_logpdf(0, None), then logpdf_list on the same inputs: the
\* second evaluation returns, and returns for submodel 0 and for every other
\* submodel what the first one returned.
C8_RoundTrip ==
    /\ rt.phase # 5
    /\ rt.phase = 4 => rt.r2 = rt.r1

\* The round trip has been made on a frozen JointDist, and both evaluations
\* returned the native densities of its two submodels.
C8_Witness ==
    /\ rt.phase = 4
    /\ Len(rt.r1) = 2
    /\ rt.r1[1].f = "None"
    /\ heap.objs[rt.self].frozen

\* C12 as claimed: pdf and rvs of a MixtureModel that is not frozen, called
\* without weights, raise the "No mixing weights supplied!" error, whatever
\* the parameters passed.
C12_Original ==
    \A c \in Mixtures(heap), chp \in ParamChoices(heap) :
        ~heap.objs[c].frozen =>
            LET h0 == WithParam(heap, chp)
                viapdf == MixtureModel_pdf(h0, c, PNone, ParamOf(heap, chp))
                viarvs == MixtureModel_rvs(h0, c, PNone, ParamOf(heap, chp), TRUE)
            IN  /\ ~viapdf.ok /\ viapdf.err = NoWeights
                /\ ~viarvs.ok /\ viarvs.err = NoWeights

\* C13 as claimed, for a JointDist g that __call__ has just returned: after
\* an evaluation of logpdf_list and set_submodel_logpdf(0, h) on g,
\* logpdf_list returns one entry per submodel of g, and entry 0 is the
\* override h called with the mapping g was frozen with for submodel 0.
C13_Original ==
    (last.op = "call" /\ last.ok /\ heap.objs[Len(heap.objs)].cls = "JointDist") =>
        LET g == Len(heap.objs)
            frozenwith == StoredList(heap, g)
            first == JointDist_logpdf_list(heap, g, PNone)
            change == set_submodel_logpdf(first.h, g, 0, "h1")
            second == JointDist_logpdf_list(change.h, g, PNone)
        IN  (first.ok /\ change.ok) =>
                /\ second.ok
                /\ Len(second.ret) = Len(heap.objs[g].submodels)
                /\ second.ret[1].f = "h1"
                /\ second.ret[1].pars = frozenwith[1]

\* C15 as claimed: in every JointDist the override table has one slot per
\* submodel, and a JointDist frozen by __call__ stores one parameter mapping
\* per submodel and has as many submodels as the one it was frozen from.
C15_Original ==
    \A c \in Joints(heap) :
        LET o == heap.objs[c]
        IN  /\ Len(TableVal(heap, c)) = Len(o.submodels)
            /\ heap.born[c].how = "call" =>
                  /\ Len(StoredList(heap, c)) = Len(o.submodels)
                  /\ Len(o.submodels) = Len(heap.objs[heap.born[c].from].submodels)

\* C16 as claimed: a composite returned by __call__ records for each of its
\* submodels the dimensionality that the composite it was frozen from
\* records, and split_data cuts the same chunk for it.
C16_Original ==
    \A c \in DOMAIN heap.objs :
        heap.born[c].how = "call" =>
            LET o == heap.objs[c]
                orig == heap.objs[heap.born[c].from]
            IN  \A k \in DOMAIN o.dims :
                    /\ o.dims[k] = orig.dims[k]
                    /\ split_data(o.dims)[k] = split_data(orig.dims)[k]

(***************************************************************************)
(* The pure functions as a state machine: the inputs are drawn by          *)
(* InitPure and each action makes one call.                                *)
(***************************************************************************)
InitPure ==
    /\ args \in ApplyArgs \cup SliceArgs
    /\ res = <<>>
    /\ heap = EmptyHeap
    /\ last = Idle
    /\ rt = RtIdle

CallApplyF ==
    /\ args.fn = "apply_f"
    /\ res = <<>>
    /\ res' = <<apply_f(args.f, args.iters)>>
    /\ UNCHANGED <<heap, last, rt, args>>

CallGetDataSlice ==
    /\ args.fn = "get_data_slice"
    /\ res = <<>>
    /\ res' = <<get_data_slice(args.x, args.i, args.j)>>
    /\ UNCHANGED <<heap, last, rt, args>>

\* After get_data_slice(x, i): get_data_slice(x, i, i+1) on the same x.
CallGetDataSliceRange ==
    /\ args.fn = "get_data_slice"
    /\ args.j = <<>>
    /\ Len(res) = 1
    /\ res' = Append(res, get_data_slice(args.x, args.i, <<args.i + 1>>))
    /\ UNCHANGED <<heap, last, rt, args>>

NextPure == CallApplyF \/ CallGetDataSlice \/ CallGetDataSliceRange

SpecPure == InitPure /\ [][NextPure]_vars

(***************************************************************************)
(* What the claims about the pure functions speak of.                      *)
(***************************************************************************)
RECURSIVE NodeAt(_, _)
NodeAt(n, path) ==
    IF path = <<>> THEN n
    ELSE IF IsList(n) /\ Head(path) <= Len(n.items)
    THEN NodeAt(n.items[Head(path)], Tail(path))
    ELSE [tag |-> "absent"]

Paths == SeqsUpTo(1..(MaxTop + 1), 3)

\* The nested shape: the structure with every leaf blanked.
RECURSIVE ShapeOf(_)
ShapeOf(n) ==
    IF IsList(n) THEN List([k \in DOMAIN n.items |-> ShapeOf(n.items[k])])
    ELSE Leaf(0)

\* At every node all inputs are lists of equal length, or none is a list.
Conforming(iters) ==
    \A path \in Paths :
        LET ns == [k \in DOMAIN iters |-> NodeAt(iters[k], path)]
        IN  \/ \A k \in DOMAIN ns : ns[k].tag = "absent"
            \/ \A k \in DOMAIN ns : ns[k].tag = "leaf"
            \/ /\ \A k \in DOMAIN ns : ns[k].tag = "list"
               /\ \A k \in DOMAIN ns : Len(ns[k].items) = Len(ns[1].items)

\* At some node some inputs are lists and others are not.
MixedNode(iters) ==
    \E path \in Paths :
        LET ns == [k \in DOMAIN iters |-> NodeAt(iters[k], path)]
        IN  /\ \A k \in DOMAIN ns : ns[k].tag \in {"leaf", "list"}
            /\ \E k \in DOMAIN ns : ns[k].tag = "list"
            /\ \E k \in DOMAIN ns : ns[k].tag = "leaf"

\* What the client's function returns on the leaves it is given.
ExpectedLeaf(f, ls) ==
    IF f.op = "id" THEN ls[1]
    ELSE Leaf(SumSeq([k \in DOMAIN ls |-> ls[k].v]))

\* C9: apply_f over inputs that are, node by node, all lists of equal length
\* or all leaves returns a structure of the inputs' nested shape whose leaves
\* are f of the corresponding leaves (so apply_f(identity, S) = S); over
\* inputs with a node where some are lists and others are not it raises
\* ValueError and returns nothing.
C9_ApplyF ==
    (args.fn = "apply_f" /\ Len(res) = 1) =>
        /\ Conforming(args.iters) =>
              /\ ~IsError(res[1])
              /\ ShapeOf(res[1]) = ShapeOf(args.iters[1])
              /\ \A path \in Paths :
                    NodeAt(args.iters[1], path).tag = "leaf" =>
                        NodeAt(res[1], path) =
                            ExpectedLeaf(args.f,
                                [k \in DOMAIN args.iters |-> NodeAt(args.iters[k], path)])
              /\ args.f.op = "id" => res[1] = args.iters[1]
        /\ MixedNode(args.iters) => res[1] = Raise("ValueError")

\* Both cases of C9 have been exercised by a binary call on nested inputs.
C9_Witness ==
    /\ args.fn = "apply_f" /\ Len(res) = 1 /\ Len(args.iters) = 2
    /\ Conforming(args.iters)
    /\ \E path \in Paths : Len(path) = 2 /\ NodeAt(res[1], path) = Leaf(2)

\* The flattened leaf arrays of a structure.
RECURSIVE LeafArrays(_)
LeafArrays(n) ==
    IF IsList(n) THEN UNION {LeafArrays(n.items[k]) : k \in DOMAIN n.items}
    ELSE {n.v}

RowCount(A) == ProdSeq(SubSeq(A.shape, 1, Len(A.shape) - 1))

\* The structure with every leaf, an array of one row, replaced by that row.
RECURSIVE SoleRows(_)
SoleRows(n) ==
    IF IsList(n) THEN List([k \in DOMAIN n.items |-> SoleRows(n.items[k])])
    ELSE IF n.v.shape[1] = 1 /\ Len(n.v.shape) = 2
    THEN Leaf(Array(<<n.v.shape[2]>>, n.v.data))
    ELSE [tag |-> "not one row"]

\* C10: for a row index i inside every flattened leaf, get_data_slice(x, i)
\* has the nested shape of x and its leaves are the sole rows of the leaves
\* of get_data_slice(x, i, i+1); the single-index form reports the summary
\* shape (1, size[-1]) and a range [i, j) reports (j-i, size[-1]).
C10_SliceIdempotence ==
    (args.fn = "get_data_slice" /\ Len(res) >= 1) =>
        LET last_axis == args.x.size[Len(args.x.size)]
            inside == \A A \in LeafArrays(args.x.data) : args.i < RowCount(A)
        IN  /\ (args.j = <<>> /\ inside) =>
                  /\ res[1].tag = "ok"
                  /\ res[1].size = <<1, last_axis>>
                  /\ ShapeOf(res[1].data) = ShapeOf(args.x.data)
                  /\ Len(res) = 2 =>
                        /\ res[2].tag = "ok"
                        /\ res[2].size = <<1, last_axis>>
                        /\ res[1].data = SoleRows(res[2].data)
            /\ (args.j # <<>> /\ res[1].tag = "ok") =>
                  res[1].size = <<args.j[1] - args.i, last_axis>>

\* A single-index slice and the range slice of the same row of nested data
\* with a three-dimensional leaf have both been taken.
C10_Witness ==
    /\ args.fn = "get_data_slice" /\ Len(res) = 2 /\ args.i = 1
    /\ res[1].tag = "ok" /\ res[2].tag = "ok"
    /\ \E A \in LeafArrays(args.x.data) : Len(A.shape) = 3
    /\ \E k \in DOMAIN args.x.data.items : IsList(args.x.data.items[k])


(***************************************************************************)
(* TransDist.  A mapping (a Python dict, or keyword arguments) is a        *)
(* sequence of <<name, value>> pairs with distinct names, in insertion     *)
(* order.  A rename instruction 'a -> b' is the sequence of the names      *)
(* that its split on ' -> ' gives.                                         *)
(***************************************************************************)
MaxRules == 2      \* most rename instructions handed to the constructor
MaxPars == 2       \* most keyword arguments of a call

DictKeys(d) == {d[k][1] : k \in DOMAIN d}

DictGet(d, key) == d[CHOOSE k \in DOMAIN d : d[k][1] = key][2]

\* d[key] = val: an existing key keeps its place.
DictSet(d, key, val) ==
    IF key \in DictKeys(d)
    THEN [k \in DOMAIN d |-> IF d[k][1] = key THEN <<key, val>> ELSE d[k]]
    ELSE Append(d, <<key, val>>)

\* TransDist.__init__ lines 443-453: the renaming dict of the instructions;
\* an instruction that does not split in two cannot be unpacked.
RECURSIVE ParseRenaming(_, _)
ParseRenaming(renaming_map, renaming) ==
    IF renaming_map = <<>> THEN [ok |-> TRUE, ret |-> renaming]
    ELSE IF Len(Head(renaming_map)) # 2 THEN [ok |-> FALSE, ret |-> <<>>]
    ELSE ParseRenaming(Tail(renaming_map),
                       DictSet(renaming, Head(renaming_map)[1], Head(renaming_map)[2]))

\* The declared parameter names of a distribution or of a function.
get_dist_args(dist) == dist.args

get_func_args(func) == func.args

\* TransDist.__init__ lines 465-474: an argument that is some instruction's
\* right side is listed under that instruction's left side (the first match).
ExposedArgs(fargs, renaming) ==
    [k \in DOMAIN fargs |->
        IF \E j \in DOMAIN renaming : renaming[j][2] = fargs[k]
        THEN renaming[CHOOSE j \in DOMAIN renaming :
                        /\ renaming[j][2] = fargs[k]
                        /\ \A m \in DOMAIN renaming :
                              renaming[m][2] = fargs[k] => j <= m][1]
        ELSE fargs[k]]

NoFunc == [name |-> "None", strict |-> FALSE, args |-> <<>>]

null_transform == [name |-> "null", strict |-> FALSE, args |-> <<>>]

\* TransDist.__init__: func_args is <<>> for None and <<list>> for a list.
TransDist_init(orig_dist, transform_func, renaming_map, func_args) ==
    LET parsed == ParseRenaming(renaming_map, <<>>)
        func == IF func_args = <<>> /\ transform_func = NoFunc
                THEN null_transform ELSE transform_func
        fargs == IF transform_func = NoFunc THEN get_dist_args(orig_dist)
                 ELSE get_func_args(transform_func)
        targs == IF func_args = <<>> THEN ExposedArgs(fargs, parsed.ret)
                 ELSE func_args[1]
    IN  IF ~parsed.ok THEN Fail(<<>>, "ValueError")
        ELSE IF Len(targs) = 0 THEN Fail(<<>>, "ValueError")
        ELSE Ok(<<>>, [orig_dist |-> orig_dist, transform_func |-> func,
                       renaming_map |-> parsed.ret, args |-> targs])

\* self.transform_func(**kw): None cannot be called, a function with a fixed
\* signature takes exactly its declared names, null_transform returns kw.
CallTransform(func, kw) ==
    IF func = NoFunc THEN Fail(<<>>, "TypeError")
    ELSE IF func.strict /\ DictKeys(kw) # Range(func.args) THEN Fail(<<>>, "TypeError")
    ELSE Ok(<<>>, [f |-> func.name, kw |-> kw])

\* get_orig_args renaming in the direction from right side to left side.
RECURSIVE RenameBack(_, _, _)
RenameBack(renaming, parameters, renamed) ==
    IF parameters = <<>> THEN renamed
    ELSE LET key == Head(parameters)[1]
             val == Head(parameters)[2]
             hits == {j \in DOMAIN renaming : renaming[j][2] = key}
             to == IF hits = {} THEN key
                   ELSE renaming[CHOOSE j \in hits : \A m \in hits : j <= m][1]
         IN  RenameBack(renaming, Tail(parameters), DictSet(renamed, to, val))

get_orig_args_back(self, parameters) ==
    CallTransform(self.transform_func, RenameBack(self.renaming_map, parameters, <<>>))

\* get_orig_args lines 502-507: the loop over parameters.items().
RECURSIVE Rename(_, _, _)
Rename(renaming, parameters, renamed) ==
    IF parameters = <<>> THEN renamed
    ELSE LET key == Head(parameters)[1]
             val == Head(parameters)[2]
             to == IF key \in DictKeys(renaming) THEN DictGet(renaming, key) ELSE key
         IN  Rename(renaming, Tail(parameters), DictSet(renamed, to, val))

\* TransDist.get_orig_args
get_orig_args(self, parameters) ==
    CallTransform(self.transform_func, Rename(self.renaming_map, parameters, <<>>))

\* TransDist.logpdf / logpmf / rvs: the underlying distribution is called
\* with what get_orig_args returns; it takes exactly its declared names.
TransDist_eval(self, parameters) ==
    LET orig_pars == get_orig_args(self, parameters)
    IN  IF ~orig_pars.ok THEN orig_pars
        ELSE IF orig_pars.ret.f # "null" THEN Ok(<<>>, [dist |-> self.orig_dist.name,
                                                        pars |-> orig_pars.ret])
        ELSE IF DictKeys(orig_pars.ret.kw) # Range(self.orig_dist.args)
        THEN Fail(<<>>, "TypeError")
        ELSE Ok(<<>>, [dist |-> self.orig_dist.name, pars |-> orig_pars.ret])



(***************************************************************************)
(* TransDist as a state machine: a TransDist is constructed, and one of    *)
(* its methods is called with keyword arguments.                           *)
(***************************************************************************)
ParNames == {"a", "b", "c"}

\* 'a -> b', 'b -> a', 'b -> c', and two instructions that do not split in two.
RuleItems == {<<"a", "b">>, <<"b", "a">>, <<"b", "c">>, <<"a">>, <<"a", "b", "c">>}

RuleLists == SeqsUpTo(RuleItems, MaxRules)

OrigDist == [name |-> "d", args |-> <<"b", "c">>]

TransFuncs ==
    {NoFunc,
     [name |-> "t1", strict |-> TRUE, args |-> <<"b">>],
     [name |-> "tk", strict |-> FALSE, args |-> <<>>]}

FuncArgLists == {<<>>, << <<>> >>, << <<"a">> >>}

\* Keyword arguments: distinct names, the k-th given the value k.
KwArgs ==
    {[k \in DOMAIN ns |-> <<ns[k], k>>] :
        ns \in {q \in SeqsUpTo(ParNames, MaxPars) :
                  \A i, j \in DOMAIN q : i # j => q[i] # q[j]}}

InitTrans ==
    /\ \E renaming_map \in RuleLists, transform_func \in TransFuncs,
          func_args \in FuncArgLists, parameters \in KwArgs :
          LET made == TransDist_init(OrigDist, transform_func, renaming_map, func_args)
          IN  /\ made.ok
              /\ args = [fn |-> "TransDist", self |-> made.ret,
                         parameters |-> parameters]
    /\ res = <<>>
    /\ heap = EmptyHeap
    /\ last = Idle
    /\ rt = RtIdle

\* self.get_orig_args(**parameters)
CallGetOrigArgs ==
    /\ res = <<>>
    /\ res' = <<[op |-> "get_orig_args",
                 out |-> get_orig_args(args.self, args.parameters)]>>
    /\ UNCHANGED <<args, heap, last, rt>>

\* self.logpdf(x, **parameters), self.logpmf(x, **parameters)
CallTransLogpdf ==
    /\ res = <<>>
    /\ res' = <<[op |-> "logpdf", out |-> TransDist_eval(args.self, args.parameters)]>>
    /\ UNCHANGED <<args, heap, last, rt>>

\* self.rvs(size, **parameters)
CallTransRvs ==
    /\ res = <<>>
    /\ res' = <<[op |-> "rvs", out |-> TransDist_eval(args.self, args.parameters)]>>
    /\ UNCHANGED <<args, heap, last, rt>>

NextTrans == CallGetOrigArgs \/ CallTransLogpdf \/ CallTransRvs

SpecTrans == InitTrans /\ [][NextTrans]_vars

\* The name the loop of get_orig_args passes key under.
PassedAs(self, key) ==
    IF key \in DictKeys(self.renaming_map) THEN DictGet(self.renaming_map, key)
    ELSE key

GotOrigArgs == res # <<>> /\ res[1].op = "get_orig_args"

\* C11 as claimed: with an instruction 'a -> b' in force, a value given
\* under b reaches the transform function under a, a name with no instruction
\* reaches it under itself, and get_orig_args returns what the transform
\* function returns for that mapping.
C11_Original ==
    GotOrigArgs =>
        LET self == args.self
            kw == res[1].out.ret.kw
        IN  \A k \in DOMAIN args.parameters :
                LET key == args.parameters[k][1]
                    val == args.parameters[k][2]
                IN  \A j \in DOMAIN self.renaming_map :
                        (self.renaming_map[j][2] = key /\ self.transform_func # NoFunc
                         /\ ~self.transform_func.strict)
                        => /\ res[1].out.ok
                           /\ self.renaming_map[j][1] \in DictKeys(kw)
                           /\ DictGet(kw, self.renaming_map[j][1]) = val

\* C11 as amended: with an instruction 'a -> b' in force, a value given
\* under a reaches the transform function under b, a name that is no
\* instruction's left side reaches it under itself, of two values that reach
\* it under one name the one given later is passed, and get_orig_args
\* returns what the transform function returns for that mapping (raising
\* only what calling the transform function raises).
C11_Amended ==
    GotOrigArgs =>
        LET self == args.self
            out == res[1].out
            pars == args.parameters
            last_to(name) == CHOOSE k \in DOMAIN pars :
                                /\ PassedAs(self, pars[k][1]) = name
                                /\ \A m \in DOMAIN pars :
                                      PassedAs(self, pars[m][1]) = name => m <= k
            names == {PassedAs(self, pars[k][1]) : k \in DOMAIN pars}
        IN  /\ out.ok <=> /\ self.transform_func # NoFunc
                          /\ self.transform_func.strict
                                => names = Range(self.transform_func.args)
            /\ out.ok =>
                  /\ out.ret.f = self.transform_func.name
                  /\ DictKeys(out.ret.kw) = names
                  /\ \A name \in names :
                        DictGet(out.ret.kw, name) = pars[last_to(name)][2]

\* get_orig_args has returned for a call that gave a value under the left
\* side of an instruction and a value under a name with no instruction.
C11_Witness ==
    /\ GotOrigArgs
    /\ res[1].out.ok
    /\ Len(args.parameters) = 2
    /\ \E k \in DOMAIN args.parameters :
          /\ args.parameters[k][1] \in DictKeys(args.self.renaming_map)
          /\ PassedAs(args.self, args.parameters[k][1]) # args.parameters[k][1]
    /\ \E k \in DOMAIN args.parameters :
          args.parameters[k][1] \notin DictKeys(args.self.renaming_map)


\* At some node all inputs are lists, and not all of one length.
UnequalNode(iters) ==
    \E path \in Paths :
        LET ns == [k \in DOMAIN iters |-> NodeAt(iters[k], path)]
        IN  /\ \A k \in DOMAIN ns : ns[k].tag = "list"
            /\ \E k \in DOMAIN ns : Len(ns[k].items) # Len(ns[1].items)

\* C14 as claimed: apply_f over two or more inputs that are, at some node,
\* lists of different lengths raises; it returns no result.
C14_Original ==
    (args.fn = "apply_f" /\ Len(res) = 1 /\ Len(args.iters) >= 2
     /\ UnequalNode(args.iters))
    => IsError(res[1])

====
